---- MODULE Spec2Model ----
(***************************************************************************)
(* Incremental sync strategy of tap-mongodb                                *)
(* (tap_mongodb/sync_strategies/incremental.py): update_bookmark and       *)
(* sync_collection, run against a MongoDB collection and a message sink.   *)
(*                                                                         *)
(* Python values are tagged records: None, PyInt(n), PyStr(s), s being     *)
(* the sequence of the string's characters.  Python dicts are functions    *)
(* whose domain is the set of keys.                                        *)
(***************************************************************************)
EXTENDS Integers, Sequences, FiniteSets, TLC

\* ------------------------------------------------------------------ bounds
MaxRows == 3        \* documents in the collection
MaxInt == 3         \* integer replication keys are 0..MaxInt
MaxPeriod == 2      \* UPDATE_BOOKMARK_PERIOD is drawn from 1..MaxPeriod
MaxRuns == 2        \* runs of sync_collection in one behaviour (SpecResume)

\* ----------------------------------------------------------- Python values
None == [cls |-> "NoneType"]
PyInt(n) == [cls |-> "int", n |-> n]
PyStr(s) == [cls |-> "str", s |-> s]

EmptyDict == [k \in {} |-> None]

\* d[k] = v of a dict
DictSet(d, k, v) == [x \in DOMAIN d \cup {k} |-> IF x = k THEN v ELSE d[x]]

\* d.get(k), default None
DictGet(d, k) == IF k \in DOMAIN d THEN d[k] ELSE None

\* d.get(k, {})
DictGetDict(d, k) == IF k \in DOMAIN d THEN d[k] ELSE EmptyDict

\* truth value of a Python object, as `if x:` tests it
Truthy(v) ==
    CASE v.cls = "NoneType" -> FALSE
      [] v.cls = "int" -> v.n # 0
      [] v.cls = "str" -> v.s # <<>>

\* v.__class__.__name__
ClassName(v) ==
    CASE v.cls = "NoneType" -> PyStr(<<"N", "o", "n", "e", "T", "y", "p", "e">>)
      [] v.cls = "int" -> PyStr(<<"i", "n", "t">>)
      [] v.cls = "str" -> PyStr(<<"s", "t", "r">>)

\* ------------------------------------------------- bookmark serialization
Digits == <<"0", "1", "2", "3", "4", "5", "6", "7", "8", "9">>

RECURSIVE NatToStr(_)
NatToStr(n) ==
    IF n < 10 THEN <<Digits[n + 1]>>
    ELSE NatToStr(n \div 10) \o <<Digits[(n % 10) + 1]>>

DigitValue(c) == CHOOSE d \in 0..9 : Digits[d + 1] = c

RECURSIVE StrToNat(_)
StrToNat(s) ==
    IF Len(s) = 1 THEN DigitValue(s[1])
    ELSE 10 * StrToNat(SubSeq(s, 1, Len(s) - 1)) + DigitValue(s[Len(s)])

\* common.class_to_string(key_value, key_type): str(key_value) for int and str
class_to_string(key_value, key_type) ==
    CASE key_type = ClassName(PyInt(0)) ->
            PyStr(IF key_value.n < 0 THEN <<"-">> \o NatToStr(-key_value.n)
                ELSE NatToStr(key_value.n))
      [] key_type = ClassName(PyStr(<<>>)) -> PyStr(key_value.s)

\* common.string_to_class(str_value, type_value): int(str_value), str(str_value)
string_to_class(str_value, type_value) ==
    CASE type_value = ClassName(PyInt(0)) ->
            PyInt(IF Head(str_value.s) = "-" THEN -StrToNat(Tail(str_value.s))
                ELSE StrToNat(str_value.s))
      [] type_value = ClassName(PyStr(<<>>)) -> PyStr(str_value.s)

\* ------------------------------------------------------ singer bookmarks
\* singer.get_bookmark(state, tap_stream_id, key)
get_bookmark(st, tap_stream_id, key) ==
    DictGet(DictGetDict(DictGetDict(st, "bookmarks"), tap_stream_id), key)

\* write_bookmark that starts the bookmarks anew with the one stream
write_bookmark_fresh(st, tap_stream_id, key, val) ==
    LET bookmarks == DictGetDict(st, "bookmarks")
        stream_bookmarks == DictGetDict(bookmarks, tap_stream_id)
    IN  DictSet(st, "bookmarks",
                [id \in {tap_stream_id} |-> DictSet(stream_bookmarks, key, val)])

\* singer.write_bookmark(state, tap_stream_id, key, val): creates the path
\* state['bookmarks'][tap_stream_id] when missing, then sets the key
write_bookmark(st, tap_stream_id, key, val) ==
    LET bookmarks == DictGetDict(st, "bookmarks")
        stream_bookmarks == DictGetDict(bookmarks, tap_stream_id)
    IN  DictSet(st, "bookmarks",
                DictSet(bookmarks, tap_stream_id, DictSet(stream_bookmarks, key, val)))

\* update_bookmark that clears the bookmark on a row without a key
update_bookmark_clearing(row_, st, tap_stream_id, replication_key_name_) ==
    LET replication_key_value == DictGet(row_, replication_key_name_)
    IN  IF Truthy(replication_key_value)
        THEN LET replication_key_type == ClassName(replication_key_value)
                 replication_key_value_bookmark_ ==
                     class_to_string(replication_key_value, replication_key_type)
             IN  write_bookmark(
                     write_bookmark(st, tap_stream_id, "replication_key_value",
                                    replication_key_value_bookmark_),
                     tap_stream_id, "replication_key_type", replication_key_type)
        ELSE write_bookmark(
                 write_bookmark(st, tap_stream_id, "replication_key_value", None),
                 tap_stream_id, "replication_key_type", None)

\* update_bookmark(row, state, tap_stream_id, replication_key_name): the state
\* dict is mutated in place, so the result is the caller's state afterwards
update_bookmark(row_, st, tap_stream_id, replication_key_name_) ==
    LET replication_key_value == DictGet(row_, replication_key_name_)
    IN  IF Truthy(replication_key_value)
        THEN LET replication_key_type == ClassName(replication_key_value)
                 replication_key_value_bookmark_ ==
                     class_to_string(replication_key_value, replication_key_type)
             IN  write_bookmark(
                     write_bookmark(st, tap_stream_id, "replication_key_value",
                                    replication_key_value_bookmark_),
                     tap_stream_id, "replication_key_type", replication_key_type)
        ELSE st

\* ------------------------------------------------------- MongoDB collection
\* BSON comparison order of the modelled types: null < numbers < strings
TypeRank(v) ==
    CASE v.cls = "NoneType" -> 1
      [] v.cls = "int" -> 2
      [] v.cls = "str" -> 3

Alphabet == <<"-">> \o Digits \o <<"a", "b">>

CharCode(c) == CHOOSE i \in 1..Len(Alphabet) : Alphabet[i] = c

RECURSIVE StrLess(_, _)
StrLess(s, t) ==
    IF s = <<>> THEN t # <<>>
    ELSE IF t = <<>> THEN FALSE
    ELSE IF s[1] = t[1] THEN StrLess(Tail(s), Tail(t))
    ELSE CharCode(s[1]) < CharCode(t[1])

BsonLess(a, b) ==
    \/ TypeRank(a) < TypeRank(b)
    \/ /\ TypeRank(a) = TypeRank(b)
       /\ CASE a.cls = "NoneType" -> FALSE
            [] a.cls = "int" -> a.n < b.n
            [] a.cls = "str" -> StrLess(a.s, b.s)

\* {field: {'$gte': bound}}: same BSON type as the bound and not less than it
\* (a missing field compares as null)
Gte(a, bound) == TypeRank(a) = TypeRank(bound) /\ ~BsonLess(a, bound)

\* {field: {'$gt': bound}}
Gt(a, bound) == TypeRank(a) = TypeRank(bound) /\ BsonLess(bound, a)

Matches(row_, filter) ==
    \A k \in DOMAIN filter : \A op \in DOMAIN filter[k] :
        CASE op = "$gte" -> Gte(DictGet(row_, k), filter[k][op])
          [] op = "$gt" -> Gt(DictGet(row_, k), filter[k][op])

\* stable insertion of a row into rows sorted ascending on sort_key
RECURSIVE InsertSorted(_, _, _)
InsertSorted(row_, sorted, sort_key) ==
    IF sorted = <<>> THEN <<row_>>
    ELSE IF BsonLess(DictGet(row_, sort_key), DictGet(Head(sorted), sort_key))
         THEN <<row_>> \o sorted
         ELSE <<Head(sorted)>> \o InsertSorted(row_, Tail(sorted), sort_key)

RECURSIVE SortAscending(_, _)
SortAscending(rows, sort_key) ==
    IF rows = <<>> THEN <<>>
    ELSE InsertSorted(rows[Len(rows)],
                      SortAscending(SubSeq(rows, 1, Len(rows) - 1), sort_key),
                      sort_key)

\* a find without the sort: the documents come in natural order
FindUnsorted(coll, filter, sort_key) ==
    SelectSeq(coll, LAMBDA r : Matches(r, filter))

\* collection.find(find_filter, projection, sort=[(key, pymongo.ASCENDING)])
Find(coll, filter, sort_key) ==
    SortAscending(SelectSeq(coll, LAMBDA r : Matches(r, filter)), sort_key)

\* ------------------------------------------------- helpers of common.py
\* common.calculate_destination_stream_name(stream)
calculate_destination_stream_name(stream_) == stream_.stream

\* common.row_to_schema(schema, row): TRUE iff the row has a field name that
\* the running schema does not have yet
row_to_schema(schema_, row_) == DOMAIN row_ \ DOMAIN schema_.properties # {}

\* the running schema after common.row_to_schema(schema, row) merged the row
MergedSchema(schema_, row_) ==
    [schema_ EXCEPT !.properties =
        [f \in DOMAIN schema_.properties \cup DOMAIN row_ |->
            IF f \in DOMAIN schema_.properties THEN schema_.properties[f]
            ELSE ClassName(row_[f])]]

\* common.row_to_singer_record(stream, row, version, time_extracted)
row_to_singer_record(stream_, row_, version, time_extracted_) ==
    [type |-> "RECORD",
     stream |-> calculate_destination_stream_name(stream_),
     record |-> row_,
     version |-> version,
     time_extracted |-> time_extracted_]

\* ------------------------------------------------------- singer messages
ActivateVersionMessage(stream_name, version) ==
    [type |-> "ACTIVATE_VERSION", stream |-> stream_name, version |-> version]

\* singer.StateMessage(value=copy.deepcopy(state))
StateMessage(value) == [type |-> "STATE", value |-> value]

SchemaMessage(stream_name, schema_, key_properties) ==
    [type |-> "SCHEMA", stream |-> stream_name, schema |-> schema_,
     key_properties |-> key_properties]

\* -------------------------------------------------------------- the state
VARIABLES
    collection,                     \* the documents of the MongoDB collection
    stream,                         \* the stream argument of sync_collection
    UPDATE_BOOKMARK_PERIOD,         \* common.UPDATE_BOOKMARK_PERIOD
    now,                            \* wall clock, in milliseconds
    start_state,                    \* the state argument as it was passed in
    state,                          \* the process-wide state dict
    pc,                             \* position of sync_collection
    first_run,
    stream_version,
    replication_key_name,
    replication_key_value_bookmark,
    find_filter,
    schema,
    cursor,                         \* rows the open cursor has yet to deliver
    rows_saved,
    time_extracted,
    row,
    messages,                       \* what singer.write_message has written
    SCHEMA_COUNT,                   \* common.SCHEMA_COUNT[tap_stream_id]
    COUNTS,                         \* common.COUNTS[tap_stream_id]
    history,                        \* the messages of the earlier runs
    error,                          \* the exception leaving sync_collection, "" if none
    find_calls,                     \* calls of collection.find
    close_calls                     \* times the cursor was closed

vars == <<collection, stream, UPDATE_BOOKMARK_PERIOD, now, start_state, state,
          pc, first_run, stream_version, replication_key_name,
          replication_key_value_bookmark, find_filter, schema, cursor,
          rows_saved, time_extracted, row, messages, SCHEMA_COUNT, COUNTS,
          history, error, find_calls, close_calls>>

inputs == <<collection, stream, UPDATE_BOOKMARK_PERIOD>>
driver == <<error, find_calls, close_calls>>
locals == <<first_run, stream_version, replication_key_name,
            replication_key_value_bookmark, find_filter, schema, cursor,
            rows_saved, time_extracted, row>>

\* ------------------------------------------------------------- the inputs
KeyField == "updated_at"
OtherStreamId == "db-other"

Streams ==
    {[tap_stream_id |-> "db-coll", stream |-> "coll",
      metadata |-> [k \in {"replication-key"} |-> KeyField]]}

\* a stream whose metadata designates no replication key
StreamsWithoutKey ==
    {[tap_stream_id |-> "db-coll", stream |-> "coll", metadata |-> EmptyDict]}

\* stream_metadata.get('replication-key') is not None
HasReplicationKey(stream_) == "replication-key" \in DOMAIN stream_.metadata

\* values a document may hold in the replication key field
KeyValueSeq ==
    <<None>> \o [i \in 1..(MaxInt + 1) |-> PyInt(i - 1)]
             \o <<PyStr(<<>>), PyStr(<<"a">>)>>

\* document number i; kind 0 lacks the replication key field
Document(i, kind) ==
    IF kind = 0 THEN [f \in {"_id"} |-> PyInt(i)]
    ELSE [f \in {"_id", KeyField} |->
             IF f = "_id" THEN PyInt(i) ELSE KeyValueSeq[kind]]

Collections ==
    UNION {{[i \in 1..n |-> Document(i, kinds[i])] :
               kinds \in [1..n -> 0..Len(KeyValueSeq)]} : n \in 0..MaxRows}

\* bookmarks of another stream, already in the state
OtherBookmarks ==
    [k \in {"version", "replication_key_value", "replication_key_type"} |->
        CASE k = "version" -> PyInt(0)
          [] k = "replication_key_value" -> PyStr(<<"7">>)
          [] k = "replication_key_type" -> ClassName(PyInt(7))]

StateOfOtherStream ==
    [k \in {"bookmarks"} |-> [id \in {OtherStreamId} |-> OtherBookmarks]]

\* states an earlier run of sync_collection leaves behind for the stream
StatesAfterEarlierRun(stream_) ==
    LET versioned == write_bookmark(StateOfOtherStream, stream_.tap_stream_id,
                                    "version", PyInt(0))
    IN  {versioned} \cup
        {update_bookmark([f \in {KeyField} |-> KeyValueSeq[kind]], versioned,
                         stream_.tap_stream_id, KeyField) :
            kind \in 1..Len(KeyValueSeq)}

StartStates(stream_) ==
    {EmptyDict, StateOfOtherStream} \cup StatesAfterEarlierRun(stream_)

EmptySchema == [type |-> "object", properties |-> EmptyDict]

LocalsUnset ==
    /\ first_run = FALSE
    /\ stream_version = None
    /\ replication_key_name = ""
    /\ replication_key_value_bookmark = None
    /\ find_filter = EmptyDict
    /\ schema = EmptySchema
    /\ cursor = <<>>
    /\ rows_saved = 0
    /\ time_extracted = 0
    /\ row = None

Init ==
    /\ stream \in Streams
    /\ collection \in Collections
    /\ UPDATE_BOOKMARK_PERIOD \in 1..MaxPeriod
    /\ now = 1
    /\ start_state \in StartStates(stream)
    /\ state = start_state
    /\ pc = "start"
    /\ LocalsUnset
    /\ messages = <<>>
    /\ SCHEMA_COUNT = 0
    /\ COUNTS = 0
    /\ history = <<>>
    /\ error = ""
    /\ find_calls = 0
    /\ close_calls = 0

\* ---------------------------------------------------------- sync_collection
tap_stream_id == stream["tap_stream_id"]

\* stream_state = state.get('bookmarks', {}).get(tap_stream_id, {}): the
\* stream's own bookmark dict inside the state, not a copy of it
stream_state == DictGetDict(DictGetDict(state, "bookmarks"), tap_stream_id)

activate_version_message ==
    ActivateVersionMessage(calculate_destination_stream_name(stream), stream_version)

\* first_run decided by truth value instead of `is None`
IsFirstRunFalsy(st, id) == ~Truthy(get_bookmark(st, id, "version"))

\* the first run told by the completion mark the other strategies keep
IsFirstRunNoCompletionMark(st, id) ==
    get_bookmark(st, id, "initial_full_table_complete") = None

\* first_run, as line 65 decides it
IsFirstRun(st, id) == get_bookmark(st, id, "version") = None

\* lines 58-76: decide first_run, pick the version, write it to the state
ResolveVersion ==
    /\ pc = "start"
    /\ first_run' = IsFirstRun(state, tap_stream_id)
    /\ stream_version' =
          IF first_run' THEN PyInt(now)
          ELSE get_bookmark(state, tap_stream_id, "version")
    /\ state' = write_bookmark(state, tap_stream_id, "version", stream_version')
    /\ pc' = "initial_activation"
    /\ UNCHANGED <<inputs, now, start_state, replication_key_name,
                   replication_key_value_bookmark, find_filter, schema, cursor,
                   rows_saved, time_extracted, row, messages, SCHEMA_COUNT,
                   COUNTS, history, driver>>

\* lines 78-86: on a first run, ACTIVATE_VERSION right away
EmitInitialActivation ==
    /\ pc = "initial_activation"
    /\ messages' = IF first_run THEN Append(messages, activate_version_message)
                   ELSE messages
    /\ pc' = "initial_state"
    /\ UNCHANGED <<inputs, now, start_state, state, locals, SCHEMA_COUNT,
                   COUNTS, history, driver>>

\* the state kept for the periodic checkpoints, no STATE before the loop
WriteInitialStateSilent ==
    /\ pc = "initial_state"
    /\ replication_key_name' = DictGet(stream.metadata, "replication-key")
    /\ replication_key_value_bookmark' =
          DictGet(stream_state, "replication_key_value")
    /\ pc' = "query"
    /\ UNCHANGED <<inputs, now, start_state, state, first_run, stream_version,
                   find_filter, schema, cursor, rows_saved, time_extracted,
                   row, messages, SCHEMA_COUNT, COUNTS, history, driver>>

\* lines 88-95: read the replication key and the bookmark, write STATE
WriteInitialState ==
    /\ pc = "initial_state"
    /\ replication_key_name' = DictGet(stream.metadata, "replication-key")
    /\ replication_key_value_bookmark' =
          DictGet(stream_state, "replication_key_value")
    /\ messages' = Append(messages, StateMessage(state))
    /\ pc' = "query"
    /\ UNCHANGED <<inputs, now, start_state, state, first_run, stream_version,
                   find_filter, schema, cursor, rows_saved, time_extracted,
                   row, SCHEMA_COUNT, COUNTS, history, driver>>

\* the filter with a strict bound
BuildFilterGt(bookmark, key_name, key_type) ==
    IF Truthy(bookmark)
    THEN [k \in {key_name} |->
             [op \in {"$gt"} |-> string_to_class(bookmark, key_type)]]
    ELSE EmptyDict

\* the filter that forgets the bookmark
BuildFilterEmpty(bookmark, key_name, key_type) == EmptyDict

\* lines 97-103: the filter of the query
BuildFilter(bookmark, key_name, key_type) ==
    IF Truthy(bookmark)
    THEN [k \in {key_name} |->
             [op \in {"$gte"} |-> string_to_class(bookmark, key_type)]]
    ELSE EmptyDict

\* lines 97-118: build the filter, open the cursor; the driver takes the
\* sort when its key is a string
OpenCursor ==
    /\ pc = "query"
    /\ HasReplicationKey(stream)
    /\ find_filter' = BuildFilter(replication_key_value_bookmark,
                                  replication_key_name,
                                  DictGet(stream_state, "replication_key_type"))
    /\ schema' = EmptySchema
    /\ cursor' = Find(collection, find_filter', replication_key_name)
    /\ find_calls' = find_calls + 1
    /\ rows_saved' = 0
    /\ time_extracted' = now
    /\ pc' = "fetch"
    /\ UNCHANGED <<inputs, now, start_state, state, first_run, stream_version,
                   replication_key_name, replication_key_value_bookmark, row,
                   messages, SCHEMA_COUNT, COUNTS, history, error, close_calls>>

\* line 120: the cursor delivers its next row
FetchRow ==
    /\ pc = "fetch"
    /\ cursor # <<>>
    /\ row' = Head(cursor)
    /\ cursor' = Tail(cursor)
    /\ pc' = "schema"
    /\ UNCHANGED <<inputs, now, start_state, state, first_run, stream_version,
                   replication_key_name, replication_key_value_bookmark,
                   find_filter, schema, rows_saved, time_extracted, messages,
                   SCHEMA_COUNT, COUNTS, history, driver>>

\* SCHEMA written for every row, whatever row_to_schema returned
WriteSchemaEveryRow ==
    /\ pc = "schema"
    /\ schema' = MergedSchema(schema, row)
    /\ messages' = Append(messages,
          SchemaMessage(calculate_destination_stream_name(stream),
                        schema', <<"_id">>))
    /\ SCHEMA_COUNT' = SCHEMA_COUNT + 1
    /\ pc' = "record"
    /\ UNCHANGED <<inputs, now, start_state, state, first_run, stream_version,
                   replication_key_name, replication_key_value_bookmark,
                   find_filter, cursor, rows_saved, time_extracted, row,
                   COUNTS, history, driver>>

\* lines 121-131: merge the row into the schema, SCHEMA when it changed
WriteSchema ==
    /\ pc = "schema"
    /\ IF row_to_schema(schema, row)
       THEN /\ schema' = MergedSchema(schema, row)
            /\ messages' = Append(messages,
                  SchemaMessage(calculate_destination_stream_name(stream),
                                schema', <<"_id">>))
            /\ SCHEMA_COUNT' = SCHEMA_COUNT + 1
       ELSE UNCHANGED <<schema, messages, SCHEMA_COUNT>>
    /\ pc' = "record"
    /\ UNCHANGED <<inputs, now, start_state, state, first_run, stream_version,
                   replication_key_name, replication_key_value_bookmark,
                   find_filter, cursor, rows_saved, time_extracted, row,
                   COUNTS, history, driver>>

\* lines 133-139: RECORD, count the row
WriteRecord ==
    /\ pc = "record"
    /\ messages' = Append(messages,
          row_to_singer_record(stream, row, stream_version, time_extracted))
    /\ rows_saved' = rows_saved + 1
    /\ pc' = "bookmark"
    /\ UNCHANGED <<inputs, now, start_state, state, first_run, stream_version,
                   replication_key_name, replication_key_value_bookmark,
                   find_filter, schema, cursor, time_extracted, row,
                   SCHEMA_COUNT, COUNTS, history, driver>>

\* the periodic STATE written before the bookmark is advanced
UpdateBookmarkAfterCheckpoint ==
    /\ pc = "bookmark"
    /\ messages' = IF rows_saved % UPDATE_BOOKMARK_PERIOD = 0
                   THEN Append(messages, StateMessage(state))
                   ELSE messages
    /\ state' = update_bookmark(row, state, tap_stream_id, replication_key_name)
    /\ pc' = "fetch"
    /\ UNCHANGED <<inputs, now, start_state, locals, SCHEMA_COUNT, COUNTS,
                   history, driver>>

\* line 141
UpdateBookmark ==
    /\ pc = "bookmark"
    /\ state' = update_bookmark(row, state, tap_stream_id, replication_key_name)
    /\ pc' = "checkpoint"
    /\ UNCHANGED <<inputs, now, start_state, locals, messages, SCHEMA_COUNT,
                   COUNTS, history, driver>>

\* the checkpoint taken on the first row of each period, not the last
CheckpointDueOnFirst(saved, period) == (saved - 1) % period = 0

\* the checkpoint of the first period left out
CheckpointDueSkipsFirst(saved, period) == saved % period = 0 /\ saved > period

\* line 143
CheckpointDue(saved, period) == saved % period = 0

\* lines 143-144: STATE after every UPDATE_BOOKMARK_PERIOD-th row
WriteCheckpoint ==
    /\ pc = "checkpoint"
    /\ messages' = IF CheckpointDue(rows_saved, UPDATE_BOOKMARK_PERIOD)
                   THEN Append(messages, StateMessage(state))
                   ELSE messages
    /\ pc' = "fetch"
    /\ UNCHANGED <<inputs, now, start_state, state, locals, SCHEMA_COUNT,
                   COUNTS, history, driver>>

\* the cursor closed without being counted
CloseCursorForgotten(calls) == calls

\* leaving `with collection.find(...) as cursor:` closes the cursor, whether
\* the block ends or an exception passes through it (lines 113-147)
CloseCursor(calls) == calls + 1

\* lines 120, 146-147: the cursor is exhausted, the with block is left
CursorExhausted ==
    /\ pc = "fetch"
    /\ cursor = <<>>
    /\ COUNTS' = COUNTS + rows_saved
    /\ close_calls' = CloseCursor(close_calls)
    /\ pc' = "finalize"
    /\ UNCHANGED <<inputs, now, start_state, state, locals, messages,
                   SCHEMA_COUNT, history, error, find_calls>>

\* a STATE written at the end of the run, before the closing ACTIVATE_VERSION
FinalizeWithState ==
    /\ pc = "finalize"
    /\ messages' = messages \o <<StateMessage(state), activate_version_message>>
    /\ pc' = "done"
    /\ UNCHANGED <<inputs, now, start_state, state, locals, SCHEMA_COUNT,
                   COUNTS, history, driver>>

\* the closing ACTIVATE_VERSION written on a first run only
FinalizeOnFirstRunOnly ==
    /\ pc = "finalize"
    /\ messages' = IF first_run THEN Append(messages, activate_version_message)
                   ELSE messages
    /\ pc' = "done"
    /\ UNCHANGED <<inputs, now, start_state, state, locals, SCHEMA_COUNT,
                   COUNTS, history, driver>>

\* lines 149-151: the closing ACTIVATE_VERSION
Finalize ==
    /\ pc = "finalize"
    /\ messages' = Append(messages, activate_version_message)
    /\ pc' = "done"
    /\ UNCHANGED <<inputs, now, start_state, state, locals, SCHEMA_COUNT,
                   COUNTS, history, driver>>

Next ==
    \/ ResolveVersion
    \/ EmitInitialActivation
    \/ WriteInitialState
    \/ OpenCursor
    \/ FetchRow
    \/ WriteSchema
    \/ WriteRecord
    \/ UpdateBookmark
    \/ WriteCheckpoint
    \/ CursorExhausted
    \/ Finalize

Spec == Init /\ [][Next]_vars

\* ------------------------------------------------- runs after the first
\* the value of the most recently written STATE message, if any
RECURSIVE LastStateValue(_, _)
LastStateValue(msgs, default) ==
    IF msgs = <<>> THEN default
    ELSE IF msgs[Len(msgs)].type = "STATE" THEN msgs[Len(msgs)].value
    ELSE LastStateValue(SubSeq(msgs, 1, Len(msgs) - 1), default)

\* The process ends (sync_collection returned, or the process was terminated
\* where it stood) and the tap is started again with the state of the last
\* STATE message written so far.
Rerun ==
    /\ Len(history) + 1 < MaxRuns
    /\ pc # "start"
    /\ history' = Append(history, [messages |-> messages,
                                   completed |-> pc = "done",
                                   start_state |-> start_state])
    /\ start_state' = LastStateValue(messages, start_state)
    /\ state' = start_state'
    /\ now' = now + 1
    /\ pc' = "start"
    /\ first_run' = FALSE
    /\ stream_version' = None
    /\ replication_key_name' = ""
    /\ replication_key_value_bookmark' = None
    /\ find_filter' = EmptyDict
    /\ schema' = EmptySchema
    /\ cursor' = <<>>
    /\ rows_saved' = 0
    /\ time_extracted' = 0
    /\ row' = None
    /\ messages' = <<>>
    /\ SCHEMA_COUNT' = 0
    /\ COUNTS' = 0
    /\ error' = ""
    /\ find_calls' = 0
    /\ close_calls' = 0
    /\ UNCHANGED inputs

\* documents numbered in the order the ascending sort delivers them
SortedCollections ==
    {c \in Collections : SortAscending(c, KeyField) = c}

\* a first start of the tap; the later runs start from the STATE messages
\* the earlier ones wrote
InitResume ==
    /\ stream \in Streams
    /\ collection \in SortedCollections
    /\ UPDATE_BOOKMARK_PERIOD \in 1..MaxPeriod
    /\ now = 1
    /\ start_state = StateOfOtherStream
    /\ state = start_state
    /\ pc = "start"
    /\ LocalsUnset
    /\ messages = <<>>
    /\ SCHEMA_COUNT = 0
    /\ COUNTS = 0
    /\ history = <<>>
    /\ error = ""
    /\ find_calls = 0
    /\ close_calls = 0

NextResume == Next \/ Rerun

SpecResume == InitResume /\ [][NextResume]_vars

\* --------------------------------------------- restarts and the version
\* Version resolution (lines 64-95) reads no row: the restarts of a stream
\* are followed from every start state over collections whose keys are
\* 1, 2, ... in order.
CountingCollections ==
    {[i \in 1..n |-> Document(i, (IF i > MaxInt THEN MaxInt ELSE i) + 2)] :
        n \in 0..MaxRows}

InitRestart ==
    /\ stream \in Streams
    /\ collection \in CountingCollections
    /\ UPDATE_BOOKMARK_PERIOD \in 1..MaxPeriod
    /\ now = 1
    /\ start_state \in StartStates(stream)
    /\ state = start_state
    /\ pc = "start"
    /\ LocalsUnset
    /\ messages = <<>>
    /\ SCHEMA_COUNT = 0
    /\ COUNTS = 0
    /\ history = <<>>
    /\ error = ""
    /\ find_calls = 0
    /\ close_calls = 0

SpecRestart == InitRestart /\ [][NextResume]_vars

\* ------------------------------------------------ runs that fail
\* sync_collection has no try/except: an exception raised by the sink
\* (singer.write_message) or by the cursor leaves the function; one raised
\* inside the with block closes the cursor on its way out.

\* line 120: the cursor raises instead of delivering a row
CursorFails ==
    /\ pc = "fetch"
    /\ error' = "cursor"
    /\ close_calls' = CloseCursor(close_calls)
    /\ pc' = "raised"
    /\ UNCHANGED <<inputs, now, start_state, state, locals, messages,
                   SCHEMA_COUNT, COUNTS, history, find_calls>>

\* lines 123-124: row_to_schema has changed the schema, the sink refuses the
\* SCHEMA message
SinkFailsOnSchema ==
    /\ pc = "schema"
    /\ row_to_schema(schema, row)
    /\ schema' = MergedSchema(schema, row)
    /\ error' = "sink"
    /\ close_calls' = CloseCursor(close_calls)
    /\ pc' = "raised"
    /\ UNCHANGED <<inputs, now, start_state, state, first_run, stream_version,
                   replication_key_name, replication_key_value_bookmark,
                   find_filter, cursor, rows_saved, time_extracted, row,
                   messages, SCHEMA_COUNT, COUNTS, history, find_calls>>

\* the sink refuses the RECORD, the error is swallowed and the loop goes on
SinkFailsOnRecordSwallowed ==
    /\ pc = "record"
    /\ error' = "sink"
    /\ pc' = "fetch"
    /\ UNCHANGED <<inputs, now, start_state, state, locals, messages,
                   SCHEMA_COUNT, COUNTS, history, find_calls, close_calls>>

\* line 138: the sink refuses the RECORD message
SinkFailsOnRecord ==
    /\ pc = "record"
    /\ error' = "sink"
    /\ close_calls' = CloseCursor(close_calls)
    /\ pc' = "raised"
    /\ UNCHANGED <<inputs, now, start_state, state, locals, messages,
                   SCHEMA_COUNT, COUNTS, history, find_calls>>

\* lines 143-144: the sink refuses the periodic STATE message
SinkFailsOnCheckpoint ==
    /\ pc = "checkpoint"
    /\ CheckpointDue(rows_saved, UPDATE_BOOKMARK_PERIOD)
    /\ error' = "sink"
    /\ close_calls' = CloseCursor(close_calls)
    /\ pc' = "raised"
    /\ UNCHANGED <<inputs, now, start_state, state, locals, messages,
                   SCHEMA_COUNT, COUNTS, history, find_calls>>

\* lines 86, 95, 149: the sink refuses a message written outside the with
\* block; no cursor is open. The refused STATE of line 95 comes after the
\* assignments of lines 91-92.
SinkFailsOutsideLoop ==
    /\ \/ /\ pc = "initial_activation" /\ first_run
          /\ UNCHANGED <<replication_key_name, replication_key_value_bookmark>>
       \/ /\ pc = "initial_state"
          /\ replication_key_name' = DictGet(stream.metadata, "replication-key")
          /\ replication_key_value_bookmark' =
                DictGet(stream_state, "replication_key_value")
       \/ /\ pc = "finalize"
          /\ UNCHANGED <<replication_key_name, replication_key_value_bookmark>>
    /\ error' = "sink"
    /\ pc' = "raised"
    /\ UNCHANGED <<inputs, now, start_state, state, first_run, stream_version,
                   find_filter, schema, cursor, rows_saved, time_extracted,
                   row, messages, SCHEMA_COUNT, COUNTS, history, find_calls,
                   close_calls>>

\* lines 91-115 with no replication key in the metadata: the name is None,
\* the filter is built, collection.find is called and the driver refuses a
\* sort key that is not a string (TypeError)
FindRejectsSortKey ==
    /\ pc = "query"
    /\ ~HasReplicationKey(stream)
    /\ find_filter' = BuildFilter(replication_key_value_bookmark,
                                  replication_key_name,
                                  DictGet(stream_state, "replication_key_type"))
    /\ schema' = EmptySchema
    /\ find_calls' = find_calls + 1
    /\ error' = "find"
    /\ pc' = "raised"
    /\ UNCHANGED <<inputs, now, start_state, state, first_run, stream_version,
                   replication_key_name, replication_key_value_bookmark,
                   cursor, rows_saved, time_extracted, row, messages,
                   SCHEMA_COUNT, COUNTS, history, close_calls>>

InitFailure ==
    /\ stream \in Streams \cup StreamsWithoutKey
    /\ collection \in SortedCollections
    /\ UPDATE_BOOKMARK_PERIOD \in 1..MaxPeriod
    /\ now = 1
    /\ start_state \in StartStates(stream)
    /\ state = start_state
    /\ pc = "start"
    /\ LocalsUnset
    /\ messages = <<>>
    /\ SCHEMA_COUNT = 0
    /\ COUNTS = 0
    /\ history = <<>>
    /\ error = ""
    /\ find_calls = 0
    /\ close_calls = 0

NextFailure ==
    \/ Next
    \/ CursorFails
    \/ SinkFailsOnSchema
    \/ SinkFailsOnRecord
    \/ SinkFailsOnCheckpoint
    \/ SinkFailsOutsideLoop
    \/ FindRejectsSortKey

SpecFailure == InitFailure /\ [][NextFailure]_vars

\* ------------------------------------------- update_bookmark on its own
\* update_bookmark called on any row and any state
AllDocuments ==
    {Document(i, kind) : i \in 1..MaxRows, kind \in 0..Len(KeyValueSeq)}

InitUpdateBookmark ==
    /\ stream \in Streams
    /\ collection = <<>>
    /\ UPDATE_BOOKMARK_PERIOD = 1
    /\ now = 1
    /\ start_state \in StartStates(stream)
    /\ state = start_state
    /\ pc = "call_update_bookmark"
    /\ first_run = FALSE
    /\ stream_version = None
    /\ replication_key_name = KeyField
    /\ replication_key_value_bookmark = None
    /\ find_filter = EmptyDict
    /\ schema = EmptySchema
    /\ cursor = <<>>
    /\ rows_saved = 0
    /\ time_extracted = 0
    /\ row \in AllDocuments
    /\ messages = <<>>
    /\ SCHEMA_COUNT = 0
    /\ COUNTS = 0
    /\ history = <<>>
    /\ error = ""
    /\ find_calls = 0
    /\ close_calls = 0

CallUpdateBookmark ==
    /\ pc = "call_update_bookmark"
    /\ state' = update_bookmark(row, state, tap_stream_id, replication_key_name)
    /\ pc' = "returned"
    /\ UNCHANGED <<inputs, now, start_state, locals, messages, SCHEMA_COUNT,
                   COUNTS, history, driver>>

NextUpdateBookmark == CallUpdateBookmark

SpecUpdateBookmark == InitUpdateBookmark /\ [][NextUpdateBookmark]_vars

\* ------------------------------------------------ vocabulary of the claims
DestinationName == calculate_destination_stream_name(stream)

MessageTypes(msgs) == [i \in 1..Len(msgs) |-> msgs[i].type]

IndicesOf(msgs, t) == {i \in 1..Len(msgs) : msgs[i].type = t}

CountOf(msgs, t) == Cardinality(IndicesOf(msgs, t))

\* RECORD messages written before message i
RecordsBefore(msgs, i) == Cardinality({j \in IndicesOf(msgs, "RECORD") : j < i})

\* the rows of the RECORD messages, in the order written
RECURSIVE RecordRows(_)
RecordRows(msgs) ==
    IF msgs = <<>> THEN <<>>
    ELSE IF Head(msgs).type = "RECORD"
         THEN <<Head(msgs).record>> \o RecordRows(Tail(msgs))
         ELSE RecordRows(Tail(msgs))

RecordIds(msgs) == {msgs[i].record["_id"].n : i \in IndicesOf(msgs, "RECORD")}

KeyOf(row_) == DictGet(row_, KeyField)

BookmarkValue(st) == get_bookmark(st, tap_stream_id, "replication_key_value")
BookmarkType(st) == get_bookmark(st, tap_stream_id, "replication_key_type")
VersionOf(st) == get_bookmark(st, tap_stream_id, "version")

\* the key value a stored bookmark stands for
BookmarkKey(st) == string_to_class(BookmarkValue(st), BookmarkType(st))

IsPrefix(s, t) == Len(s) <= Len(t) /\ SubSeq(t, 1, Len(s)) = s

CursorIsOpen == pc \in {"fetch", "schema", "record", "bookmark", "checkpoint"}
PastActivation == pc \notin {"start", "initial_activation"}

\* ---------------------------------------------------------------- claims

\* C1: a run that finds no 'version' bookmark mints a version from the clock,
\* stores it in the state and writes ACTIVATE_VERSION for it as the very first
\* message, before the cursor is opened; a run that finds a version keeps
\* exactly that version and writes no ACTIVATE_VERSION until the closing one.
C1_VersionResolvedBeforeRows ==
    PastActivation =>
        IF VersionOf(start_state) = None
        THEN /\ stream_version = PyInt(now)
             /\ VersionOf(state) = stream_version
             /\ messages # <<>>
             /\ messages[1] = ActivateVersionMessage(DestinationName, stream_version)
        ELSE /\ stream_version = VersionOf(start_state)
             /\ VersionOf(state) = VersionOf(start_state)
             /\ \A i \in IndicesOf(messages, "ACTIVATE_VERSION") :
                    pc = "done" /\ i = Len(messages)

\* C1 witness: a first run stands before the query with the minted version
\* already activated
C1_Witness ==
    /\ pc = "query"
    /\ VersionOf(start_state) = None
    /\ messages[1].type = "ACTIVATE_VERSION"
    /\ VersionOf(state) = PyInt(now)

\* C2: when the cursor was exhausted and the run returned, the last message is
\* ACTIVATE_VERSION with the run's version, every RECORD precedes it, and the
\* RECORDs are those of all the rows of the query.
C2_FinalActivationAfterRecords ==
    pc = "done" =>
        /\ messages[Len(messages)] =
              ActivateVersionMessage(DestinationName, VersionOf(state))
        /\ VersionOf(state) = stream_version
        /\ \A i \in IndicesOf(messages, "RECORD") : i < Len(messages)
        /\ RecordRows(messages) = Find(collection, find_filter, KeyField)

\* C2 witness: a run that was not a first run has returned after two rows or more
C2_Witness ==
    /\ pc = "done"
    /\ VersionOf(start_state) # None
    /\ rows_saved >= 2

\* C3: one STATE before any RECORD, one right after every N-th RECORD, no
\* other; a completed run of R rows has written 1 + R \div N of them.
C3_StateMessageCount ==
    /\ \A i \in IndicesOf(messages, "STATE") :
          LET k == RecordsBefore(messages, i)
          IN  /\ k % UPDATE_BOOKMARK_PERIOD = 0
              /\ k = 0 => \A j \in IndicesOf(messages, "STATE") : i <= j
              /\ k > 0 => messages[i - 1].type = "RECORD"
    /\ \A k \in 1..CountOf(messages, "RECORD") :
          (k % UPDATE_BOOKMARK_PERIOD = 0
             /\ (pc \notin {"bookmark", "checkpoint"} \/ k < rows_saved))
          => \E i \in IndicesOf(messages, "STATE") : RecordsBefore(messages, i) = k
    /\ pc = "done" =>
          /\ CountOf(messages, "RECORD") = Len(Find(collection, find_filter, KeyField))
          /\ CountOf(messages, "STATE") =
                1 + (CountOf(messages, "RECORD") \div UPDATE_BOOKMARK_PERIOD)

\* C3 witness: a run of 3 rows with period 2 has returned
C3_Witness ==
    /\ pc = "done"
    /\ rows_saved = 3
    /\ UPDATE_BOOKMARK_PERIOD = 2
    /\ CountOf(messages, "STATE") = 2

\* the collection of the end-to-end scenario: keys 1, 2, 3, same field names
ScenarioCollection ==
    [i \in 1..3 |-> [f \in {"_id", KeyField} |-> PyInt(i)]]

IsScenario ==
    /\ collection = ScenarioCollection
    /\ UPDATE_BOOKMARK_PERIOD = 2
    /\ tap_stream_id \notin DOMAIN DictGetDict(start_state, "bookmarks")

\* C4: no prior state, keys 1, 2, 3, period 2: the messages are
\* ACTIVATE_VERSION, STATE, SCHEMA, RECORD(1), RECORD(2), STATE, RECORD(3),
\* ACTIVATE_VERSION and the bookmark ends as "3" of type int.
C4_EndToEndScenario ==
    IsScenario =>
        LET expected == <<"ACTIVATE_VERSION", "STATE", "SCHEMA", "RECORD",
                          "RECORD", "STATE", "RECORD", "ACTIVATE_VERSION">>
        IN  /\ IsPrefix(MessageTypes(messages), expected)
            /\ pc = "done" =>
                  /\ MessageTypes(messages) = expected
                  /\ RecordRows(messages) = ScenarioCollection
                  /\ BookmarkValue(state) = PyStr(<<"3">>)
                  /\ BookmarkType(state) = PyStr(<<"i", "n", "t">>)

\* C4 witness: the scenario has run to its end
C4_Witness == IsScenario /\ pc = "done" /\ Len(messages) = 8

\* C5: no step of a run lowers the stored replication_key_value: once a value
\* is stored, the value stored after the step is not less than it.
C5_BookmarkNeverRegresses ==
    [][BookmarkValue(state) # None =>
          /\ BookmarkValue(state') # None
          /\ ~BsonLess(BookmarkKey(state'), BookmarkKey(state))]_vars

\* C5 witness: a resumed run has moved the bookmark it started with
C5_Witness ==
    /\ pc = "checkpoint"
    /\ BookmarkValue(start_state) # None
    /\ rows_saved >= 2
    /\ BsonLess(BookmarkKey(start_state), BookmarkKey(state))

\* C6: after update_bookmark on a row whose key is not null, the bookmark is
\* that key serialized, with its type name.
C6_NonNullKeyOverwritesBookmark ==
    (pc = "checkpoint" /\ KeyOf(row) # None) =>
        /\ BookmarkValue(state) = class_to_string(KeyOf(row), ClassName(KeyOf(row)))
        /\ BookmarkType(state) = ClassName(KeyOf(row))

\* C7: update_bookmark on a row that lacks the key field, or holds null in
\* it, leaves the whole state as it was.
C7_NullKeyLeavesState ==
    (pc = "returned" /\ KeyOf(row) = None) => state = start_state

\* C7 witness: update_bookmark has returned from a row without a key while a
\* bookmark was stored
C7_Witness ==
    /\ pc = "returned"
    /\ KeyField \notin DOMAIN row
    /\ BookmarkValue(start_state) # None
    /\ BookmarkValue(state) = BookmarkValue(start_state)

\* rows of the collection, as a set
Documents == {collection[i] : i \in 1..Len(collection)}

\* the rows the cursor was opened on: delivered already, or still to come
RowsOfCursor ==
    {r \in Documents :
        \/ \E i \in 1..Len(cursor) : cursor[i] = r
        \/ \E i \in IndicesOf(messages, "RECORD") : messages[i].record = r
        \/ pc \in {"schema", "record"} /\ row = r}

\* C8: with no stored replication_key_value the filter is empty and the run
\* reads every row; with one, the filter is {key: {$gte: v}}, v being the key
\* the bookmark was serialized from, and the run reads every row whose key is
\* v or exceeds it, in the order the rows are sorted and bookmarked by, and
\* no row whose key is below it.
C8_FilterFromBookmark ==
    CursorIsOpen =>
        IF BookmarkValue(start_state) = None
        THEN /\ find_filter = EmptyDict
             /\ RowsOfCursor = Documents
        ELSE /\ DOMAIN find_filter = {KeyField}
             /\ DOMAIN find_filter[KeyField] = {"$gte"}
             /\ LET v == find_filter[KeyField]["$gte"]
                IN  /\ ClassName(v) = BookmarkType(start_state)
                    /\ class_to_string(v, ClassName(v)) = BookmarkValue(start_state)
                    /\ \A r \in Documents :
                          r \in RowsOfCursor <=>
                             (KeyOf(r) = v \/ BsonLess(v, KeyOf(r)))

\* C8 among the rows whose key has the type of the bookmark: the filter is
\* as C8 says, and of these rows the run reads the ones at or above the
\* bookmark; it reads no row of another type, below or above
C8_SameTypeRowsFromBookmark ==
    CursorIsOpen =>
        IF BookmarkValue(start_state) = None
        THEN /\ find_filter = EmptyDict
             /\ RowsOfCursor = Documents
        ELSE /\ DOMAIN find_filter = {KeyField}
             /\ DOMAIN find_filter[KeyField] = {"$gte"}
             /\ LET v == find_filter[KeyField]["$gte"]
                IN  /\ ClassName(v) = BookmarkType(start_state)
                    /\ class_to_string(v, ClassName(v)) = BookmarkValue(start_state)
                    /\ \A r \in Documents :
                          r \in RowsOfCursor <=>
                             /\ KeyOf(r).cls = v.cls
                             /\ KeyOf(r) = v \/ BsonLess(v, KeyOf(r))

\* field names of the rows whose RECORD precedes message i
NamesBefore(msgs, i) ==
    UNION {DOMAIN msgs[j].record : j \in {k \in IndicesOf(msgs, "RECORD") : k < i}}

SchemaNames(msgs, i) == DOMAIN msgs[i].schema.properties

\* C9: a SCHEMA message is written only for a row that brings a field name
\* no earlier row had, and then once for the row; every field name is first
\* carried by exactly one SCHEMA message; a row with known names writes none,
\* whatever the types of its values; the schema written only grows and keeps
\* the type first inferred for a field.
C9_SchemaOncePerNewField ==
    /\ \A i \in IndicesOf(messages, "SCHEMA") :
          /\ SchemaNames(messages, i) \ NamesBefore(messages, i) # {}
          /\ i < Len(messages) =>
                /\ messages[i + 1].type = "RECORD"
                /\ SchemaNames(messages, i) =
                      NamesBefore(messages, i) \cup DOMAIN messages[i + 1].record
          /\ \A j \in IndicesOf(messages, "SCHEMA") : j < i =>
                /\ SchemaNames(messages, j) \subseteq SchemaNames(messages, i)
                /\ SchemaNames(messages, j) # SchemaNames(messages, i)
                /\ \A f \in SchemaNames(messages, j) :
                      messages[i].schema.properties[f] = messages[j].schema.properties[f]
    /\ \A i \in IndicesOf(messages, "RECORD") :
          (DOMAIN messages[i].record \subseteq NamesBefore(messages, i))
             <=> messages[i - 1].type # "SCHEMA"
    /\ \A f \in NamesBefore(messages, Len(messages) + 1) :
          Cardinality({i \in IndicesOf(messages, "SCHEMA") :
                          /\ f \in SchemaNames(messages, i)
                          /\ f \notin NamesBefore(messages, i)}) = 1
    /\ SCHEMA_COUNT = CountOf(messages, "SCHEMA")

\* C9 witness: three rows written, the key an int in one and a str in
\* another, two SCHEMA messages in all
C9_Witness ==
    /\ pc = "done"
    /\ rows_saved = 3
    /\ CountOf(messages, "SCHEMA") = 2
    /\ \E i, j \in IndicesOf(messages, "RECORD") :
          /\ i < j
          /\ KeyOf(messages[i].record).cls = "int"
          /\ KeyOf(messages[j].record).cls = "str"
          /\ messages[j - 1].type # "SCHEMA"

\* the run before this one
PreviousRun == history[Len(history)]

\* index of the last STATE message of msgs, 0 when there is none
LastStateIndex(msgs) ==
    IF IndicesOf(msgs, "STATE") = {} THEN 0
    ELSE CHOOSE i \in IndicesOf(msgs, "STATE") :
            \A j \in IndicesOf(msgs, "STATE") : j <= i

\* rows whose RECORD both the previous run and this run have written
Reemitted == RecordIds(messages) \cap RecordIds(PreviousRun.messages)

\* rows whose RECORD the previous run wrote after its last STATE message
IdsAfterLastState(msgs) ==
    {msgs[i].record["_id"].n :
        i \in {k \in IndicesOf(msgs, "RECORD") : k > LastStateIndex(msgs)}}

\* C10 as stated: a run started from the last STATE message of a terminated
\* run writes again at most N-1 of the RECORDs that run had written.
C10_AtMostPeriodMinusOneReemitted ==
    (history # <<>> /\ ~PreviousRun.completed) =>
        Cardinality(Reemitted) <= UPDATE_BOOKMARK_PERIOD - 1

\* C10 amended: of the rows the terminated run wrote after its last STATE
\* message, at most N, the new run may write all again; a row written before
\* that STATE message is written again only when the STATE carries no
\* replication_key_value or the row's key is not below the bookmarked value.
C10_ReemittedBoundedByCheckpoint ==
    (history # <<>> /\ ~PreviousRun.completed) =>
        LET after == IdsAfterLastState(PreviousRun.messages)
        IN  /\ Cardinality(after) <= UPDATE_BOOKMARK_PERIOD
            /\ \A i \in IndicesOf(messages, "RECORD") :
                  LET r == messages[i].record
                  IN  (r["_id"].n \in RecordIds(PreviousRun.messages) \ after) =>
                         \/ BookmarkValue(start_state) = None
                         \/ /\ KeyOf(r).cls = BookmarkKey(start_state).cls
                            /\ ~BsonLess(KeyOf(r), BookmarkKey(start_state))
            /\ pc = "done" =>
                  Cardinality(Reemitted) <=
                     UPDATE_BOOKMARK_PERIOD +
                     Cardinality({id \in RecordIds(PreviousRun.messages) \ after :
                        \/ BookmarkValue(start_state) = None
                        \/ /\ KeyOf(collection[id]).cls = BookmarkKey(start_state).cls
                           /\ ~BsonLess(KeyOf(collection[id]), BookmarkKey(start_state))})

\* C10 witness: a run resumed after a terminated one has written again N rows
\* or more and has not written again a row below the bookmark
C10_Witness ==
    /\ history # <<>>
    /\ ~PreviousRun.completed
    /\ pc = "done"
    /\ Cardinality(Reemitted) >= UPDATE_BOOKMARK_PERIOD
    /\ RecordIds(PreviousRun.messages) \ RecordIds(messages) # {}

\* ---------------------------------------------------------------- C11
\* the rows written as RECORD in the earlier runs or in this one
EverEmitted ==
    RecordIds(messages)
        \cup UNION {RecordIds(history[i].messages) : i \in 1..Len(history)}

AllIds == {collection[i]["_id"].n : i \in 1..Len(collection)}

\* the keys of the collection that are neither null nor missing
NonNullKeys == {KeyOf(d) : d \in Documents} \ {None}

\* C11: over an unchanged collection, once a run that started from the last
\* STATE message of the runs before it completes, every row of the collection
\* has been written as a RECORD by one of the runs.
C11_EveryRowEmittedOnceComplete ==
    pc = "done" => AllIds \subseteq EverEmitted

\* C11 with replication keys of one type: no row is lost
C11_OneKeyTypeEveryRowEmitted ==
    (pc = "done" /\ \A k1, k2 \in NonNullKeys : k1.cls = k2.cls)
        => AllIds \subseteq EverEmitted

\* ---------------------------------------------------------------- C12
\* collection.find returned a cursor
CursorWasOpened == find_calls = 1 /\ error # "find"

\* C12: the cursor opened by sync_collection is closed exactly once on every
\* way out of the streaming loop: it is not closed while the loop runs, it is
\* closed once when the loop ends, and when the sink or the cursor raises
\* while a row is processed it is closed once by the time the error has left
\* sync_collection; a run that never opened a cursor closes none.
C12_CursorClosedExactlyOnce ==
    /\ find_calls <= 1
    /\ CursorIsOpen => CursorWasOpened /\ close_calls = 0
    /\ (~CursorIsOpen /\ CursorWasOpened) => close_calls = 1
    /\ ~CursorWasOpened => close_calls = 0

\* the sink refused a message of the second row
C12_Witness ==
    /\ pc = "raised"
    /\ error = "sink"
    /\ Cardinality(RecordIds(messages)) = 1
    /\ rows_saved = 1
    /\ row["_id"].n \notin RecordIds(messages)
    /\ close_calls = 1

\* ---------------------------------------------------------------- C13
\* the positions of sync_collection before the filter is built (line 97)
BeforeQueryBuilt == pc \in {"start", "initial_activation", "initial_state"}

\* C13: when the stream metadata designates no replication key, the run
\* fails before any query is built or issued: it is either still before
\* line 97 or it has failed without a filter built and without a call of
\* collection.find.
C13_MissingKeyFailsBeforeQuery ==
    ~HasReplicationKey(stream)
        => \/ BeforeQueryBuilt
           \/ pc = "raised" /\ find_calls = 0

\* ---------------------------------------------------------------- C14
\* C14: when the cursor fails to deliver a row or the sink refuses a message
\* during the streaming loop, sync_collection stops with the error: the step
\* that fails ends the run with the error set and writes nothing, a failed
\* run writes no further message, changes the state no more and does not
\* call collection.find again, and what it has written holds no
\* ACTIVATE_VERSION but the one of the start of a first run.
C14_FailureAbortsRun ==
    [][/\ (error' # "") => (pc' = "raised")
       /\ (error # "") => /\ messages' = messages
                          /\ find_calls' = find_calls
                          /\ state' = state
       /\ (CursorIsOpen /\ error' # "")
              => /\ messages' = messages
                 /\ find_calls' = 1
                 /\ \A i \in IndicesOf(messages', "ACTIVATE_VERSION") :
                        i = 1 /\ first_run]_vars

\* the sink refused the RECORD of a row after a row was written
C14_Witness ==
    /\ pc = "raised"
    /\ error = "sink"
    /\ close_calls = 1
    /\ rows_saved = 1
    /\ cursor # <<>>
    /\ messages[Len(messages)].type \in {"RECORD", "STATE"}

\* ---------------------------------------------------------------- C15
\* the serialized bookmark update_bookmark stores for a key
Serialized(key) == class_to_string(key, ClassName(key))

\* C15: per row the order is SCHEMA (if any), RECORD, bookmark advance,
\* periodic STATE: a SCHEMA is directly followed by a RECORD, the bookmark is
\* advanced with the RECORD of the row already written, and every periodic
\* STATE directly follows the RECORD of its row and carries the bookmark as
\* update_bookmark left it for that row (the row's own key when the row
\* advances the bookmark), never the bookmark from before the row.
C15_RowStepOrder ==
    /\ \A i \in IndicesOf(messages, "SCHEMA") :
           i < Len(messages) => messages[i + 1].type = "RECORD"
    /\ \A i \in IndicesOf(messages, "STATE") :
           RecordsBefore(messages, i) > 0
               => /\ messages[i - 1].type = "RECORD"
                  /\ LET key == KeyOf(messages[i - 1].record)
                     IN  Truthy(key)
                             => /\ BookmarkValue(messages[i].value) = Serialized(key)
                                /\ BookmarkType(messages[i].value) = ClassName(key)
    /\ pc \in {"bookmark", "checkpoint"}
           => /\ messages[Len(messages)].type = "RECORD"
              /\ messages[Len(messages)].record = row
    /\ pc = "checkpoint"
           => /\ state = update_bookmark(row, state, tap_stream_id, KeyField)
              /\ Truthy(KeyOf(row)) => BookmarkValue(state) = Serialized(KeyOf(row))

\* a periodic STATE whose bookmark differs from the one of the STATE before
C15_Witness ==
    \E i \in IndicesOf(messages, "STATE") :
        /\ RecordsBefore(messages, i) > 0
        /\ Truthy(KeyOf(messages[i - 1].record))
        /\ \E j \in IndicesOf(messages, "STATE") :
               /\ j < i
               /\ BookmarkValue(messages[j].value) # BookmarkValue(messages[i].value)

\* ---------------------------------------------------------------- C16
\* the run is at or past the opening of the cursor
PastInitialState == pc \notin {"start", "initial_activation", "initial_state"}

\* C16: on every run, first or not, the resolved version is written into the
\* state and a STATE message carrying it is emitted before the cursor is
\* opened (before any RECORD); so when the run before this one was
\* terminated after that point, this run starts from a STATE with that
\* version, is not a first run and keeps the version.
C16_VersionCheckpointedBeforeCursor ==
    /\ pc # "start" => VersionOf(state) = stream_version
    /\ PastInitialState
           => /\ IndicesOf(messages, "STATE") # {}
              /\ \A i \in IndicesOf(messages, "STATE") :
                     VersionOf(messages[i].value) = stream_version
              /\ \A r \in IndicesOf(messages, "RECORD") :
                     \E i \in IndicesOf(messages, "STATE") : i < r
    /\ (history # <<>> /\ pc # "start"
            /\ IndicesOf(PreviousRun.messages, "STATE") # {})
           => /\ ~first_run
              /\ VersionOf(start_state) = stream_version
              /\ \A i \in IndicesOf(PreviousRun.messages, "STATE") :
                     VersionOf(PreviousRun.messages[i].value) = stream_version

\* the run before was terminated right after its first STATE; this run, not a
\* first run, has opened its cursor
C16_Witness ==
    /\ history # <<>>
    /\ ~PreviousRun.completed
    /\ CountOf(PreviousRun.messages, "STATE") = 1
    /\ CountOf(PreviousRun.messages, "RECORD") = 0
    /\ CursorIsOpen
    /\ ~first_run

\* ---------------------------------------------------------------- C17
\* the RECORD messages written after the most recent STATE message
RecordsSinceLastState(msgs) ==
    Cardinality({k \in IndicesOf(msgs, "RECORD") : k > LastStateIndex(msgs)})

\* C17: at every point of a run with checkpoint period N at most N RECORD
\* messages have been written since the most recent STATE message, and when
\* the loop has ended at most N-1.
C17_RecordsSinceStateBounded ==
    /\ RecordsSinceLastState(messages) <= UPDATE_BOOKMARK_PERIOD
    /\ pc \in {"finalize", "done"}
           => RecordsSinceLastState(messages) <= UPDATE_BOOKMARK_PERIOD - 1

\* N RECORDs since the last STATE: the N-th row written, its STATE not yet
C17_Witness ==
    /\ UPDATE_BOOKMARK_PERIOD = MaxPeriod
    /\ pc = "checkpoint"
    /\ RecordsSinceLastState(messages) = UPDATE_BOOKMARK_PERIOD

\* ---------------------------------------------------------------- C18
\* the message logs of the earlier runs and of this one
AllRuns == [i \in 1..Len(history) |-> history[i].messages] \o <<messages>>

\* the run began with the ACTIVATE_VERSION of a first run
HasEarlyActivation(msgs) ==
    Len(msgs) >= 1 /\ msgs[1].type = "ACTIVATE_VERSION"

\* the versions a log shows: ACTIVATE_VERSION messages and STATE messages
VersionsShown(msgs) ==
    {msgs[i].version : i \in IndicesOf(msgs, "ACTIVATE_VERSION")}
        \cup {VersionOf(msgs[i].value) : i \in IndicesOf(msgs, "STATE")}

\* C18 as stated: once a version has been minted for the stream, every later
\* run, after a completed or an interrupted one, keeps that version, and the
\* early ACTIVATE_VERSION is emitted in at most one run.
C18_VersionNeverRotated ==
    /\ pc # "start"
           => \A i \in 1..Len(history) :
                  VersionsShown(history[i].messages) \subseteq {stream_version}
    /\ Cardinality({i \in 1..Len(AllRuns) : HasEarlyActivation(AllRuns[i])}) <= 1

\* C18 amended: once a STATE message has been emitted for the stream, every
\* later run started from the last STATE message is not a first run, keeps
\* the version those STATE messages carry and emits no early
\* ACTIVATE_VERSION; at most one run emits both the early ACTIVATE_VERSION
\* and a STATE message.
C18_VersionKeptOnceCheckpointed ==
    /\ (pc # "start"
            /\ \E i \in 1..Len(history) :
                   IndicesOf(history[i].messages, "STATE") # {})
           => /\ ~first_run
              /\ ~HasEarlyActivation(messages)
              /\ \A i \in 1..Len(history) :
                     \A k \in IndicesOf(history[i].messages, "STATE") :
                         VersionOf(history[i].messages[k].value) = stream_version
              /\ VersionsShown(messages) \subseteq {stream_version}
    /\ Cardinality({i \in 1..Len(AllRuns) :
                        /\ HasEarlyActivation(AllRuns[i])
                        /\ IndicesOf(AllRuns[i], "STATE") # {}}) <= 1

\* a first run terminated after a checkpoint, the run after it completed
C18_Witness ==
    /\ history # <<>>
    /\ HasEarlyActivation(history[1].messages)
    /\ ~history[1].completed
    /\ CountOf(history[1].messages, "STATE") >= 2
    /\ pc = "done"
    /\ ~first_run

\* ---------------------------------------------------------------- C19
Bookmarks(st) == DictGetDict(st, "bookmarks")

\* st holds what start_state holds for every stream but this one, and for
\* this one nothing but version, replication_key_value, replication_key_type
\* has changed
OnlyThisStreamChanged(st) ==
    /\ DOMAIN st \ {"bookmarks"} = DOMAIN start_state \ {"bookmarks"}
    /\ \A k \in DOMAIN st \ {"bookmarks"} : st[k] = start_state[k]
    /\ DOMAIN Bookmarks(st) \ {tap_stream_id}
           = DOMAIN Bookmarks(start_state) \ {tap_stream_id}
    /\ \A id \in DOMAIN Bookmarks(st) \ {tap_stream_id} :
           Bookmarks(st)[id] = Bookmarks(start_state)[id]
    /\ LET mine == DictGetDict(Bookmarks(st), tap_stream_id)
           was == DictGetDict(Bookmarks(start_state), tap_stream_id)
           written == {"version", "replication_key_value", "replication_key_type"}
       IN  /\ DOMAIN mine \ written = DOMAIN was \ written
           /\ \A k \in DOMAIN mine \ written : mine[k] = was[k]

\* C19: a run for one stream changes only that stream's version,
\* replication_key_value and replication_key_type: at every point of the run
\* the entries of the other streams are as the run found them, and every
\* STATE message carries them unchanged.
C19_OtherStreamsUntouched ==
    /\ OnlyThisStreamChanged(state)
    /\ \A i \in IndicesOf(messages, "STATE") :
           OnlyThisStreamChanged(messages[i].value)

\* a completed run that moved its own bookmark beside another stream's
C19_Witness ==
    /\ pc = "done"
    /\ OtherStreamId \in DOMAIN Bookmarks(start_state)
    /\ Bookmarks(state)[OtherStreamId] = OtherBookmarks
    /\ BookmarkValue(state) # BookmarkValue(start_state)
    /\ VersionOf(start_state) = None
    /\ CountOf(messages, "STATE") >= 2

====
